---- MODULE Spec2Model ----
(***************************************************************************)
(* Model of index.py, a Streamlit dashboard over a CSV of economic-activity *)
(* records.  The script is re-executed top to bottom on every widget       *)
(* interaction; one action of the model is one user interaction followed   *)
(* by the whole re-run.                                                     *)
(*                                                                         *)
(* Column and label names are written in ASCII:                            *)
(*   "year"       the year column            (index.py line 37)            *)
(*   "region"     the region column          (index.py line 42)            *)
(*   "active", "employed", "unemployed"                                    *)
(*                the three metric columns   (index.py line 70)            *)
(*   "Total"      the aggregate region label (index.py line 43), which in  *)
(*                the source is a Hangul string sorting after "A" and "B". *)
(***************************************************************************)
EXTENDS Integers, Sequences, FiniteSets, TLC

VARIABLES
    file,             \* the CSV file on disk: None (missing) or Some(table)
    cache,            \* st.cache_data entry of load_data: None or Some([value, errors])
    reads,            \* number of pd.read_csv calls made so far
    phase,            \* "init" before the first run, "first" after it, "later" afterwards
    df,               \* the script's df in the last run
    errors,           \* number of st.error elements shown in the last run
    body,             \* whether the last run rendered the UI body (line 30)
    selected_years,   \* value of the year multiselect (selection order)
    selected_regions, \* value of the region multiselect (selection order)
    bar_metric,       \* widget state of key 'bar_metric'
    comp_year,        \* widget state of key 'comp_year': None or Some([value, options])
    line_metric,      \* widget state of key 'line_metric'
    trend_region,     \* widget state of key 'trend_region': None or Some([value, options])
    filtered_df,      \* the filtered rows of the last run
    bar,              \* bar panel of the last run
    line,             \* line panel of the last run
    heat,             \* heatmap panel of the last run
    reset             \* whether a selectbox of the last run dropped a stored
                      \* value that is no longer among its options

vars == <<file, cache, reads, phase, df, errors, body, selected_years,
          selected_regions, bar_metric, comp_year, line_metric, trend_region,
          filtered_df, bar, line, heat, reset>>

\* Python's None, and a widget without session state, are the empty
\* sequence; a present value v is <<v>>.
None == <<>>
Some(v) == <<v>>
Val(o) == o[1]

\* ------------------------------------------------------------------ data

YEAR == "year"
REGION == "region"
AGG == "Total"

\* The option list of both metric selectboxes.
Metrics == <<"active", "employed", "unemployed">>

Range(s) == {s[i] : i \in 1..Len(s)}

MetricSet == Range(Metrics)

\* Python's str ordering on the region labels used below.
RegionRank == [r \in {"A", "B", AGG} |-> CASE r = "A" -> 1 [] r = "B" -> 2 [] OTHER -> 3]

Row(y, r, a, e, u) ==
    [year |-> y, region |-> r, active |-> a, employed |-> e, unemployed |-> u]

\* A metric cell that read_csv cannot parse as a number (it leaves the whole
\* column with dtype object).
NonNumeric == 0 - 1

\* The sample rows of the dashboard's data: two regions over two years.
SampleTable ==
    << Row(2020, "A", 100, 90, 10),
       Row(2020, "B", 200, 180, 20),
       Row(2021, "A", 110, 95, 15) >>

\* Three years and three regions, one row each, the aggregate row without
\* numeric metrics.
SparseTable ==
    << Row(2020, "B", 200, 180, 20),
       Row(2021, "A", 110, 95, 15),
       Row(2022, AGG, NonNumeric, NonNumeric, NonNumeric) >>

\* Rows a CSV file may hold: the rows above, a second record of (2020, A)
\* with other values, and a numeric record of the aggregate region.
RowPool ==
    Range(SampleTable) \cup Range(SparseTable)
      \cup { Row(2020, "A", 120, 101, 19), Row(2020, AGG, 300, 270, 30) }

MaxRows == 2

\* The files of the model: every table of at most MaxRows rows of the pool, in
\* every order and with repetitions, and the two tables above.
Tables == UNION {[1..n -> RowPool] : n \in 0..MaxRows} \cup {SampleTable, SparseTable}

\* ------------------------------------------------------- library functions

\* sorted(...) of a set of years (line 37, line 113).
RECURSIVE SortedYears(_)
SortedYears(S) ==
    IF S = {} THEN <<>>
    ELSE LET m == CHOOSE x \in S : \A y \in S : x <= y
         IN <<m>> \o SortedYears(S \ {m})

\* sorted(...) of a set of region labels (line 42).
RECURSIVE SortedRegions(_)
SortedRegions(S) ==
    IF S = {} THEN <<>>
    ELSE LET m == CHOOSE x \in S : \A y \in S : RegionRank[x] <= RegionRank[y]
         IN <<m>> \o SortedRegions(S \ {m})

\* df[col].unique(), as a set.
Unique(rows, col) == {rows[i][col] : i \in 1..Len(rows)}

\* The values of a column in order of first appearance.
RECURSIVE FirstSeen(_, _)
FirstSeen(rows, col) ==
    IF rows = <<>> THEN <<>>
    ELSE LET init == SubSeq(rows, 1, Len(rows) - 1)
             v == rows[Len(rows)][col]
         IN IF v \in Unique(init, col) THEN FirstSeen(init, col)
            ELSE Append(FirstSeen(init, col), v)

RECURSIVE SumCol(_, _)
SumCol(rows, col) ==
    IF rows = <<>> THEN 0 ELSE rows[1][col] + SumCol(Tail(rows), col)

\* Mutant of FilterDf: the two masks joined with | instead of &.
FilterDf_or(rows, Y, R) ==
    SelectSeq(rows, LAMBDA r : r[YEAR] \in Range(Y) \/ r[REGION] \in Range(R))

\* Mutant of FilterDf: the first matching row is lost.
FilterDf_skip(rows, Y, R) ==
    LET hit == SelectSeq(rows, LAMBDA r : r[YEAR] \in Range(Y) /\ r[REGION] \in Range(R))
    IN IF hit = <<>> THEN <<>> ELSE Tail(hit)

\* df[(df[year].isin(Y)) & (df[region].isin(R))] (line 47).
FilterDf(rows, Y, R) ==
    SelectSeq(rows, LAMBDA r : r[YEAR] \in Range(Y) /\ r[REGION] \in Range(R))

\* df[df[col] == v] (lines 77, 107).
WhereEq(rows, col, v) == SelectSeq(rows, LAMBDA r : r[col] = v)

\* st.multiselect: the default the first time, the stored selection afterwards.
Multiselect(default, state) == IF state = None THEN default ELSE Val(state)

\* st.selectbox over a non-empty option list: the values it may return.  A
\* widget without state returns the first option.  A widget whose option
\* list is the one its state was stored with returns the stored value.  When
\* the option list has changed, the widget is reset to the first option, or
\* (in Streamlit releases that identify a widget by its key) keeps the stored
\* value if that is still an option.
Selectbox(options, state) ==
    IF state = None THEN {options[1]}
    ELSE IF Val(state).options = options THEN {Val(state).value}
    ELSE {options[1]} \cup ({Val(state).value} \cap Range(options))

\* Whether a selectbox with these options has to drop its stored value.
Dropped(options, state) ==
    state # None /\ Val(state).value \notin Range(options)

\* Mutant of Barplot: the bar is the sum over the rows of the region
\* (estimator=sum), not their mean.
Barplot_sum(rows, metric) ==
    LET xs == FirstSeen(rows, REGION)
    IN [i \in 1..Len(xs) |->
          [x |-> xs[i], sum |-> SumCol(WhereEq(rows, REGION, xs[i]), metric), n |-> 1]]

\* sns.barplot(data, x=region, y=metric): one bar per region in order of
\* first appearance; its height is the mean of the metric over the rows of
\* the region, kept as the pair sum / n.
Barplot(rows, metric) ==
    LET xs == FirstSeen(rows, REGION)
    IN [i \in 1..Len(xs) |->
          LET g == WhereEq(rows, REGION, xs[i])
          IN [x |-> xs[i], sum |-> SumCol(g, metric), n |-> Len(g)]]

\* Mutant of Lineplot: the points are left in row order (sort=False).
Lineplot_unsorted(rows, metric) ==
    LET xs == FirstSeen(rows, YEAR)
    IN [i \in 1..Len(xs) |->
          LET g == WhereEq(rows, YEAR, xs[i])
          IN [x |-> xs[i], sum |-> SumCol(g, metric), n |-> Len(g)]]

\* sns.lineplot(data, x=year, y=metric): one point per year in ascending
\* year order; its value is the mean of the metric over the rows of the year.
Lineplot(rows, metric) ==
    LET xs == SortedYears(Unique(rows, YEAR))
    IN [i \in 1..Len(xs) |->
          LET g == WhereEq(rows, YEAR, xs[i])
          IN [x |-> xs[i], sum |-> SumCol(g, metric), n |-> Len(g)]]

\* The dtype read_csv gives a column is numeric when every cell parses as a
\* number (a file without rows leaves every column with dtype object).
IsNumeric(rows, col) ==
    /\ rows # <<>>
    /\ \A i \in 1..Len(rows) : rows[i][col] # NonNumeric

\* select_dtypes(include=['number']).columns.tolist() (line 128); filtering
\* rows keeps the dtypes of the table d the rows were taken from.
NumericCols(d) == SelectSeq(<<YEAR>> \o Metrics, LAMBDA c : IsNumeric(d, c))

\* --------------------------------------------------------------- the script

\* Mutant of load_data: an empty table instead of None for a missing file.
load_data_empty(f) ==
    IF f = None THEN [value |-> Some(<<>>), errors |-> 1]
    ELSE [value |-> f, errors |-> 0]

\* load_data's body (lines 20-26): what it returns and how many st.error
\* elements it emits.
load_data(f) ==
    IF f = None THEN [value |-> None, errors |-> 1]
    ELSE [value |-> f, errors |-> 0]

\* Mutant of CachedLoad: load_data without the cache decorator.
UncachedLoad(c, f) == [entry |-> load_data(f), reads |-> 1]

\* @st.cache_data (line 19) around load_data: without a stored entry the body
\* runs (one read_csv call); a stored entry is returned, and its recorded
\* elements replayed, without running the body.
CachedLoad(c, f) ==
    IF c = None THEN [entry |-> load_data(f), reads |-> 1]
    ELSE [entry |-> Val(c), reads |-> 0]

\* if df is not None (line 30).
BodyShown(d) == d # None

all_years(d) == SortedYears(Unique(d, YEAR))

all_regions(d) == SortedRegions(Unique(d, REGION))

\* Mutant of default_regions: the aggregate label is not left out.
default_regions_all(d) == all_regions(d)

default_regions(d) == SelectSeq(all_regions(d), LAMBDA r : r # AGG)

\* Mutant of BarShown: the guard only looks at the year selection.
BarShown_years(fdf, sy) == Len(sy) > 0

\* The guards of the bar and line panels (lines 66, 96).
BarShown(fdf, sy) == fdf # <<>> /\ Len(sy) > 0

LineShown(fdf, sr) == fdf # <<>> /\ Len(sr) > 0

\* Mutant of CompYearOptions: the selector offers every year of the table.
CompYearOptions_all(d, sy) == all_years(d)

\* The option lists of the two chart selectors (lines 75, 105).
CompYearOptions(d, sy) == sy

TrendRegionOptions(d, sr) == sr

NoPanel == [kind |-> "none"]

InfoPanel == [kind |-> "info"]

\* Lines 77-87: the bar panel once its selectors have returned.
BarPanel(d, fdf, metric, year) ==
    LET year_df == WhereEq(fdf, YEAR, year)
    IN IF year_df # <<>>
       THEN IF IsNumeric(d, metric)
            THEN [kind |-> "chart", year |-> year, metric |-> metric,
                  data |-> year_df, bars |-> Barplot(year_df, metric)]
            ELSE [kind |-> "exception"]
       ELSE [kind |-> "warning"]

\* Lines 107-117: the line panel once its selectors have returned.
LinePanel(d, fdf, metric, region) ==
    LET region_df == WhereEq(fdf, REGION, region)
    IN IF region_df # <<>>
       THEN IF IsNumeric(d, metric)
            THEN [kind |-> "chart", region |-> region, metric |-> metric,
                  data |-> region_df, points |-> Lineplot(region_df, metric),
                  ticks |-> SortedYears(Unique(region_df, YEAR))]
            ELSE [kind |-> "exception"]
       ELSE [kind |-> "warning"]

\* Mutant of HeatPanel: one numeric column is taken to be enough.
HeatPanel_any(d, fdf) ==
    IF fdf # <<>>
    THEN IF Len(NumericCols(d)) > 0
         THEN [kind |-> "chart", corr |-> NumericCols(d)]
         ELSE [kind |-> "warning"]
    ELSE [kind |-> "info"]

\* Lines 126-140: the heatmap panel.
HeatPanel(d, fdf) ==
    IF fdf # <<>>
    THEN LET numeric_cols == NumericCols(d)
         IN IF Len(numeric_cols) > 1
            THEN [kind |-> "chart", corr |-> numeric_cols]
            ELSE [kind |-> "warning"]
    ELSE [kind |-> "info"]

WidgetState(v, options) == Some([value |-> v, options |-> options])

\* Lines 31-140, run with the widget states wy .. wtr the browser holds.
Body(d, wy, wr, wbm, wcy, wlm, wtr) ==
    \E sy \in {Multiselect(all_years(d), wy)},
       sr \in {Multiselect(default_regions(d), wr)} :
    \E fdf \in {FilterDf(d, sy, sr)} :
    \E bs \in {BarShown(fdf, sy)}, ls \in {LineShown(fdf, sr)} :
    \E bm \in (IF bs THEN Selectbox(Metrics, wbm) ELSE {None}),
       cy \in (IF bs THEN Selectbox(CompYearOptions(d, sy), wcy) ELSE {None}) :
    \E b \in {IF bs THEN BarPanel(d, fdf, bm, cy) ELSE InfoPanel} :
    \E raised \in {b.kind = "exception"} :
    \E lm \in (IF ls /\ ~raised THEN Selectbox(Metrics, wlm) ELSE {None}),
       tr \in (IF ls /\ ~raised THEN Selectbox(TrendRegionOptions(d, sr), wtr)
               ELSE {None}) :
    \E l \in {IF raised THEN NoPanel
              ELSE IF ls THEN LinePanel(d, fdf, lm, tr) ELSE InfoPanel} :
       /\ selected_years' = Some(sy)
       /\ selected_regions' = Some(sr)
       /\ filtered_df' = fdf
       /\ bar' = b
       /\ bar_metric' = IF bs THEN WidgetState(bm, Metrics) ELSE None
       /\ comp_year' = IF bs THEN WidgetState(cy, CompYearOptions(d, sy)) ELSE None
       /\ line' = l
       \* An uncaught exception ends the run without the clean-up of the
       \* widgets the run has not reached: their state stays as it was.
       /\ line_metric' = IF raised THEN wlm
                         ELSE IF ls THEN WidgetState(lm, Metrics) ELSE None
       /\ trend_region' = IF raised THEN wtr
                          ELSE IF ls THEN WidgetState(tr, TrendRegionOptions(d, sr))
                          ELSE None
       /\ heat' = IF raised \/ l.kind = "exception" THEN NoPanel
                  ELSE HeatPanel(d, fdf)
       /\ reset' = \/ bs /\ Dropped(CompYearOptions(d, sy), wcy)
                   \/ ls /\ ~raised /\ Dropped(TrendRegionOptions(d, sr), wtr)

\* One execution of the script, top to bottom (lines 28-140).
Script(wy, wr, wbm, wcy, wlm, wtr) ==
    \E call \in {CachedLoad(cache, file)} :
    LET ld == call.entry
    IN /\ cache' = Some(ld)
       /\ reads' = reads + call.reads
       /\ df' = ld.value
       /\ errors' = ld.errors
       /\ body' = BodyShown(ld.value)
       /\ phase' = IF phase = "init" THEN "first" ELSE "later"
       /\ UNCHANGED file
       /\ IF BodyShown(ld.value)
          THEN Body(Val(ld.value), wy, wr, wbm, wcy, wlm, wtr)
          ELSE /\ selected_years' = None
               /\ selected_regions' = None
               /\ filtered_df' = <<>>
               /\ bar_metric' = None
               /\ comp_year' = None
               /\ line_metric' = None
               /\ trend_region' = None
               /\ bar' = NoPanel
               /\ line' = NoPanel
               /\ heat' = NoPanel
               /\ reset' = FALSE

\* ------------------------------------------------------------------ actions

Init ==
    /\ file \in {None} \cup {Some(d) : d \in Tables}
    /\ cache = None
    /\ reads = 0
    /\ phase = "init"
    /\ df = None
    /\ errors = 0
    /\ body = FALSE
    /\ selected_years = None
    /\ selected_regions = None
    /\ bar_metric = None
    /\ comp_year = None
    /\ line_metric = None
    /\ trend_region = None
    /\ filtered_df = <<>>
    /\ bar = NoPanel
    /\ line = NoPanel
    /\ heat = NoPanel
    /\ reset = FALSE

\* A selector of a panel is on the page when the panel got past its guard.
Rendered(panel) == panel.kind \in {"chart", "warning", "exception"}

\* Adding an option to a multiselect appends it; removing it keeps the order.
Toggle(sel, v) ==
    IF v \in Range(sel) THEN SelectSeq(sel, LAMBDA x : x # v) ELSE Append(sel, v)

\* The first run of a session.
FirstRun ==
    /\ phase = "init"
    /\ Script(None, None, None, None, None, None)

\* A re-run with no widget changed.
Rerun ==
    /\ phase # "init"
    /\ Script(selected_years, selected_regions, bar_metric, comp_year,
              line_metric, trend_region)

ChangeYears ==
    /\ body
    /\ \E y \in Range(all_years(Val(df))) :
         Script(Some(Toggle(Val(selected_years), y)), selected_regions,
                bar_metric, comp_year, line_metric, trend_region)

ChangeRegions ==
    /\ body
    /\ \E r \in Range(all_regions(Val(df))) :
         Script(selected_years, Some(Toggle(Val(selected_regions), r)),
                bar_metric, comp_year, line_metric, trend_region)

SelectBarMetric ==
    /\ body
    /\ Rendered(bar)
    /\ \E m \in MetricSet \ {Val(bar_metric).value} :
         Script(selected_years, selected_regions, WidgetState(m, Metrics),
                comp_year, line_metric, trend_region)

SelectCompYear ==
    /\ body
    /\ Rendered(bar)
    /\ \E y \in Range(Val(comp_year).options) \ {Val(comp_year).value} :
         Script(selected_years, selected_regions, bar_metric,
                WidgetState(y, Val(comp_year).options), line_metric, trend_region)

SelectLineMetric ==
    /\ body
    /\ Rendered(line)
    /\ \E m \in MetricSet \ {Val(line_metric).value} :
         Script(selected_years, selected_regions, bar_metric, comp_year,
                WidgetState(m, Metrics), trend_region)

SelectTrendRegion ==
    /\ body
    /\ Rendered(line)
    /\ \E r \in Range(Val(trend_region).options) \ {Val(trend_region).value} :
         Script(selected_years, selected_regions, bar_metric, comp_year,
                line_metric, WidgetState(r, Val(trend_region).options))

Next ==
    \/ FirstRun
    \/ Rerun
    \/ ChangeYears
    \/ ChangeRegions
    \/ SelectBarMetric
    \/ SelectCompYear
    \/ SelectLineMetric
    \/ SelectTrendRegion

Spec == Init /\ [][Next]_vars

\* --------------------------------------------------------------- properties

Idx(rows) == 1..Len(rows)

\* The k-th smallest element of a set of positions.
KthOf(I, k) == CHOOSE i \in I : Cardinality({j \in I : j <= i}) = k

\* sub is made of the rows at the positions I, in their order.
IsSelection(sub, rows, I) ==
    /\ Len(sub) = Cardinality(I)
    /\ \A k \in 1..Len(sub) : sub[k] = rows[KthOf(I, k)]

RECURSIVE SumOver(_, _, _)
SumOver(I, rows, col) ==
    IF I = {} THEN 0
    ELSE LET i == CHOOSE j \in I : TRUE
         IN rows[i][col] + SumOver(I \ {i}, rows, col)

Ascending(s) == \A i, j \in 1..Len(s) : i < j => s[i] < s[j]

\* Every metric cell of the table is a number.
WellFormed(d) == \A i \in Idx(d) : \A m \in MetricSet : d[i][m] # NonNumeric

SelYears == Range(Val(selected_years))

SelRegions == Range(Val(selected_regions))

\* C1: with a loaded table, the filtered rows are exactly the rows of the
\* table whose year is selected and whose region is selected, in table order
\* and with their multiplicity; an empty selection gives no rows.
C1_FilteredExactly ==
    body =>
      LET d == Val(df)
          I == {i \in Idx(d) : d[i][YEAR] \in SelYears /\ d[i][REGION] \in SelRegions}
      IN /\ IsSelection(filtered_df, d, I)
         /\ (SelYears = {} \/ SelRegions = {}) => filtered_df = <<>>

\* Years {2020} and regions {A, B} over the sample rows: the first two rows.
C1_Witness ==
    /\ phase = "later"
    /\ df = Some(SampleTable)
    /\ selected_years = Some(<<2020>>)
    /\ SelRegions = {"A", "B"}
    /\ filtered_df = SubSeq(SampleTable, 1, 2)

\* C2: when the file is missing, a run ends without an exception, df is None,
\* exactly one error element is shown and nothing of the body is rendered.
C2_MissingFile ==
    (phase # "init" /\ file = None) =>
      /\ df = None
      /\ errors = 1
      /\ ~body
      /\ selected_years = None /\ selected_regions = None
      /\ filtered_df = <<>>
      /\ bar = NoPanel /\ line = NoPanel /\ heat = NoPanel

C2_Witness == phase = "later" /\ file = None /\ errors = 1 /\ reads = 1

\* C3: on the first render the selected years are the distinct years of the
\* table and the selected regions its distinct regions other than the
\* aggregate label, so no filtered row carries that label; once the label is
\* selected, every row carrying it whose year is selected is in the result.
C3_DefaultSelection ==
    /\ (phase = "first" /\ body) =>
         /\ SelYears = {Val(df)[i][YEAR] : i \in Idx(Val(df))}
         /\ Len(Val(selected_years)) = Cardinality(SelYears)
         /\ SelRegions = {Val(df)[i][REGION] : i \in Idx(Val(df))} \ {AGG}
         /\ Len(Val(selected_regions)) = Cardinality(SelRegions)
         /\ \A k \in Idx(filtered_df) : filtered_df[k][REGION] # AGG
    /\ (body /\ AGG \in SelRegions) =>
         Cardinality({k \in Idx(filtered_df) : filtered_df[k][REGION] = AGG})
           = Cardinality({i \in Idx(Val(df)) :
                 Val(df)[i][REGION] = AGG /\ Val(df)[i][YEAR] \in SelYears})

C3_Witness ==
    /\ phase = "later"
    /\ body
    /\ AGG \in SelRegions
    /\ \E k \in Idx(filtered_df) : filtered_df[k][REGION] = AGG

\* C4: after a successful load the file has been read once, however many
\* re-runs followed, and the table every run works on is the loaded one.
C4_ReadOnce ==
    (phase # "init" /\ file # None) =>
      /\ reads = 1
      /\ df = file
      /\ cache = Some([value |-> file, errors |-> 0])
      /\ \A k \in Idx(filtered_df) : filtered_df[k] \in Range(Val(file))

C4_Witness ==
    /\ phase = "later"
    /\ body
    /\ reads = 1
    /\ Val(selected_years) # all_years(Val(df))
    /\ filtered_df # <<>>

\* C5: filtering the filtered rows again with the same selections changes
\* nothing.
C5_Idempotent ==
    body =>
      FilterDf(filtered_df, Val(selected_years), Val(selected_regions)) = filtered_df

C5_Witness ==
    /\ body
    /\ filtered_df # <<>>
    /\ Len(filtered_df) < Len(Val(df))
    /\ phase = "later"

\* The number of numeric columns of the loaded table, counted cell by cell.
NumericCount ==
    Cardinality({c \in {YEAR} \cup MetricSet :
        /\ Val(df) # <<>>
        /\ \A i \in Idx(Val(df)) : Val(df)[i][c] # NonNumeric})

\* C6 as stated, for a file with at least one row: whenever the heatmap stage
\* runs, fewer than two numeric columns give the warning, an empty filtered
\* set gives the informational placeholder, and a matrix is drawn only from a
\* non-empty set with at least two numeric columns.
C6_Original ==
    (body /\ Val(df) # <<>> /\ heat.kind # "none") =>
      /\ NumericCount < 2 => heat.kind = "warning"
      /\ filtered_df = <<>> => heat.kind = "info"
      /\ heat.kind = "chart" => (filtered_df # <<>> /\ NumericCount >= 2)

\* C6 amended: whenever the heatmap stage runs, an empty filtered set gives
\* the informational placeholder, a non-empty one with fewer than two numeric
\* columns the warning and no matrix, and a non-empty one with at least two
\* numeric columns the matrix over exactly the numeric columns.
C6_Heatmap ==
    (body /\ heat.kind # "none") =>
      /\ heat.kind = (IF filtered_df = <<>> THEN "info"
                      ELSE IF NumericCount < 2 THEN "warning" ELSE "chart")
      /\ heat.kind = "chart" =>
           /\ Len(heat.corr) = NumericCount
           /\ \A c \in Range(heat.corr) : \A i \in Idx(Val(df)) : Val(df)[i][c] # NonNumeric

C6_Witness == body /\ heat.kind = "warning" /\ filtered_df # <<>> /\ NumericCount = 1

\* C7 as stated, for tables whose metric columns are numeric: the bar panel
\* shows the informational placeholder exactly when no year is selected, the
\* line panel exactly when no region is selected; otherwise a panel shows the
\* warning when its subset is empty and a chart when it is not.
C7_Original ==
    (body /\ WellFormed(Val(df))) =>
      /\ bar.kind \in {"info", "warning", "chart"}
      /\ line.kind \in {"info", "warning", "chart"}
      /\ bar.kind = "info" <=> SelYears = {}
      /\ line.kind = "info" <=> SelRegions = {}
      /\ bar.kind = "chart" => bar.data # <<>>
      /\ line.kind = "chart" => line.data # <<>>

\* C7 amended, for tables whose metric columns are numeric: each of the two
\* panels shows exactly one of placeholder, warning and chart; both show the
\* informational placeholder exactly when the filtered set is empty (as it is
\* when no year or no region is selected); otherwise the bar panel shows the
\* warning when no filtered row has the comparison year and a chart when one
\* has, and the line panel likewise for the trend region.
C7_Panels ==
    (body /\ WellFormed(Val(df))) =>
      /\ bar.kind \in {"info", "warning", "chart"}
      /\ line.kind \in {"info", "warning", "chart"}
      /\ bar.kind = "info" <=> filtered_df = <<>>
      /\ line.kind = "info" <=> filtered_df = <<>>
      /\ (SelYears = {} \/ SelRegions = {}) => (bar.kind = "info" /\ line.kind = "info")
      /\ bar.kind # "info" =>
           (bar.kind = "chart" <=>
              \E k \in Idx(filtered_df) : filtered_df[k][YEAR] = Val(comp_year).value)
      /\ line.kind # "info" =>
           (line.kind = "chart" <=>
              \E k \in Idx(filtered_df) : filtered_df[k][REGION] = Val(trend_region).value)
      /\ bar.kind = "chart" => bar.data # <<>>
      /\ line.kind = "chart" => line.data # <<>>

C7_Witness ==
    /\ body
    /\ WellFormed(Val(df))
    /\ bar.kind = "warning"
    /\ line.kind = "chart"

\* The part of C8 on which its statement and its amendment agree: the chart
\* is built from the filtered rows of the comparison year, with one bar per
\* region of these rows, in the order in which the regions first appear.
BarChartShape ==
    LET I == {i \in Idx(filtered_df) : filtered_df[i][YEAR] = bar.year}
        regs == {filtered_df[i][REGION] : i \in I}
        first(r) == CHOOSE i \in I :
                      /\ filtered_df[i][REGION] = r
                      /\ \A j \in I : filtered_df[j][REGION] = r => i <= j
    IN /\ bar.year = Val(comp_year).value
       /\ bar.metric = Val(bar_metric).value
       /\ IsSelection(bar.data, filtered_df, I)
       /\ {bar.bars[k].x : k \in Idx(bar.bars)} = regs
       /\ \A j, k \in Idx(bar.bars) : j < k => first(bar.bars[j].x) < first(bar.bars[k].x)

\* The filtered rows a bar stands for.
BarRows(k) ==
    {i \in Idx(filtered_df) :
        filtered_df[i][YEAR] = bar.year /\ filtered_df[i][REGION] = bar.bars[k].x}

\* The sample case of C8: year 2020 and the employed count over regions A, B.
BarSample ==
    ( /\ Val(df) = SampleTable
      /\ bar.year = 2020
      /\ bar.metric = "employed"
      /\ {"A", "B"} \subseteq SelRegions )
    => bar.bars = << [x |-> "A", sum |-> 90, n |-> 1], [x |-> "B", sum |-> 180, n |-> 1] >>

\* C8 as stated: the height of a bar is the metric value of its region, that
\* is of every filtered row of the comparison year with that region.
C8_Original ==
    (body /\ bar.kind = "chart") =>
      /\ BarChartShape
      /\ \A k \in Idx(bar.bars) : \A i \in BarRows(k) :
           bar.bars[k].sum = bar.bars[k].n * filtered_df[i][bar.metric]

\* C8 amended: the bar chart is built from exactly the filtered rows of the
\* comparison year, with one bar per region of these rows in the order in
\* which the regions first appear; the height of a bar is the mean of the
\* metric over the rows of its region (the region's value when it has one row).
C8_BarChart ==
    (body /\ bar.kind = "chart") =>
      /\ BarChartShape
      /\ \A k \in Idx(bar.bars) :
           /\ bar.bars[k].n = Cardinality(BarRows(k))
           /\ bar.bars[k].sum = SumOver(BarRows(k), filtered_df, bar.metric)
      /\ BarSample

C8_Witness ==
    /\ body
    /\ bar.kind = "chart"
    /\ \E k \in Idx(bar.bars) : bar.bars[k].n = 2 /\ bar.bars[k].sum = 220

\* The part of C9 on which its statement and its amendment agree: the chart
\* is built from the filtered rows of the trend region, its points are in
\* ascending year order, one per year of these rows, and its ticks are the
\* sorted distinct years of these rows.
LineChartShape ==
    LET I == {i \in Idx(filtered_df) : filtered_df[i][REGION] = line.region}
        years == {filtered_df[i][YEAR] : i \in I}
    IN /\ line.region = Val(trend_region).value
       /\ line.metric = Val(line_metric).value
       /\ IsSelection(line.data, filtered_df, I)
       /\ {line.points[k].x : k \in Idx(line.points)} = years
       /\ Ascending([k \in Idx(line.points) |-> line.points[k].x])
       /\ Range(line.ticks) = years
       /\ Ascending(line.ticks)

\* The filtered rows a point stands for.
PointRows(k) ==
    {i \in Idx(filtered_df) :
        filtered_df[i][REGION] = line.region /\ filtered_df[i][YEAR] = line.points[k].x}

\* The sample case of C9: region A and the employed count over 2020, 2021.
LineSample ==
    ( /\ Val(df) = SampleTable
      /\ line.region = "A"
      /\ line.metric = "employed"
      /\ {2020, 2021} \subseteq SelYears )
    => line.points = << [x |-> 2020, sum |-> 90, n |-> 1], [x |-> 2021, sum |-> 95, n |-> 1] >>

\* C9 as stated: the line plots the metric value of the rows against their
\* year, that is a point of a year has the value of every row of that year.
C9_Original ==
    (body /\ line.kind = "chart") =>
      /\ LineChartShape
      /\ \A k \in Idx(line.points) : \A i \in PointRows(k) :
           line.points[k].sum = line.points[k].n * filtered_df[i][line.metric]

\* C9 amended: the line chart is built from exactly the filtered rows of the
\* trend region; it has one point per distinct year of these rows, at the mean
\* of the metric over the rows of that year (the value itself when the year
\* has one row), the points joined in ascending year order whatever the row
\* order; its ticks are the sorted distinct years of these rows.
C9_LineChart ==
    (body /\ line.kind = "chart") =>
      /\ LineChartShape
      /\ \A k \in Idx(line.points) :
           /\ line.points[k].n = Cardinality(PointRows(k))
           /\ line.points[k].sum = SumOver(PointRows(k), filtered_df, line.metric)
      /\ LineSample

C9_Witness ==
    /\ body
    /\ line.kind = "chart"
    /\ Len(line.points) = 2
    /\ Len(line.data) = 2
    /\ line.data[1][YEAR] > line.data[2][YEAR]

\* C10: in every render that shows the bar selectors the comparison year is
\* one of the selected years, and in every render that shows the line
\* selectors the trend region is one of the selected regions; a chart is
\* built for that value and from rows of selected years and regions only.
C10_FreshChoice ==
    body =>
      /\ Rendered(bar) =>
           /\ Val(comp_year).value \in SelYears
           /\ bar.kind = "chart" =>
                /\ bar.year = Val(comp_year).value
                /\ \A k \in Idx(bar.data) : bar.data[k][YEAR] = bar.year
      /\ Rendered(line) =>
           /\ Val(trend_region).value \in SelRegions
           /\ line.kind = "chart" =>
                /\ line.region = Val(trend_region).value
                /\ \A k \in Idx(line.data) : line.data[k][REGION] = line.region

C10_Witness == body /\ reset /\ bar.kind = "chart" /\ line.kind = "chart"

====
